---- MODULE Spec2Model ----
(***************************************************************************)
(* Hortus API: the request handlers of api/handlers, the sanitization      *)
(* rules they apply to form fields, and the PostgresDatabase adapter of    *)
(* api/database together with the two tables it reads and writes.          *)
(*                                                                         *)
(* Text is modelled at the level the code inspects it: a string is a       *)
(* sequence of runs <<c, n>>, the character c repeated n >= 1 times, and   *)
(* every character has a UTF-8 byte width, a code point, a whitespace      *)
(* class and a well-formedness flag.                                       *)
(***************************************************************************)
EXTENDS Integers, Sequences, FiniteSets, TLC

(***************************************************************************)
(* Bounds of the model.                                                    *)
(***************************************************************************)
MaxRuns == 3          \* runs per string handed to a sanitizer
MaxPlants == 2        \* plant rows inserted in one behaviour
MaxLogs == 1          \* plant_log rows inserted in one behaviour
MaxConns == 2         \* connections the pool may hold open
MaxInFlight == 2      \* requests served at the same time

(***************************************************************************)
(* Program constants.                                                      *)
(***************************************************************************)
nameMaxLen == 255
MaxASCII == 127
RuneError == 65533
StatusOK == 200
StatusBadRequest == 400
StatusMethodNotAllowed == 405
StatusInternalServerError == 500

notAllowed == "Method not allowed"

(***************************************************************************)
(* Characters.  "a" and "b" are ASCII letters, "sp" the ASCII space,       *)
(* "eacute" is U+00E9 (two bytes), "nbsp" is U+00A0 (two bytes, white      *)
(* space for unicode.IsSpace), "xff" is the lone byte 0xFF, which is not   *)
(* well-formed UTF-8 and which a range loop decodes as RuneError.          *)
(***************************************************************************)
Chars == {"a", "b", "sp", "eacute", "nbsp", "xff"}

Width(c) == IF c \in {"eacute", "nbsp"} THEN 2 ELSE 1

CodePoint(c) ==
    CASE c = "a" -> 97
      [] c = "b" -> 98
      [] c = "sp" -> 32
      [] c = "eacute" -> 233
      [] c = "nbsp" -> 160
      [] c = "xff" -> RuneError

IsSpace(c) == c \in {"sp", "nbsp"}

ValidRune(c) == c # "xff"

RECURSIVE ByteLen(_)
ByteLen(s) ==
    IF s = <<>> THEN 0 ELSE s[1][2] * Width(s[1][1]) + ByteLen(Tail(s))

RECURSIVE RuneCount(_)
RuneCount(s) ==
    IF s = <<>> THEN 0 ELSE s[1][2] + RuneCount(Tail(s))

ValidString(s) == \A i \in 1..Len(s) : ValidRune(s[i][1])

SetMin(S) == CHOOSE x \in S : \A y \in S : x <= y
SetMax(S) == CHOOSE x \in S : \A y \in S : y <= x

\* Variant: only the first and the last run are dropped when they are
\* white space.
TrimSpace_OneRun(s) ==
    LET lo == IF s # <<>> /\ IsSpace(s[1][1]) THEN 2 ELSE 1
        hi == IF Len(s) >= lo /\ IsSpace(s[Len(s)][1])
              THEN Len(s) - 1 ELSE Len(s)
    IN  SubSeq(s, lo, hi)

TrimSpace(s) ==
    LET keep == {i \in 1..Len(s) : ~IsSpace(s[i][1])}
    IN  IF keep = {} THEN <<>> ELSE SubSeq(s, SetMin(keep), SetMax(keep))

(***************************************************************************)
(* Sanitization rules.  A result is the returned string with the error     *)
(* text, NoErr standing for the nil error.                                 *)
(***************************************************************************)
NoErr == "nil"

\* Variant: the loop answers after looking at the first character only.
isAscii_FirstOnly(s) == s = <<>> \/ ~(CodePoint(s[1][1]) > MaxASCII)

isAscii(s) == \A i \in 1..Len(s) : ~(CodePoint(s[i][1]) > MaxASCII)

\* Variant: the test for an empty name is missing.
sanitizeCommonName_NoEmptyTest(name) ==
    LET s == TrimSpace(name)
    IN  IF ByteLen(s) > nameMaxLen
        THEN [s |-> <<>>, err |-> "Common name length is greater than 255"]
        ELSE IF ~ValidString(s)
        THEN [s |-> <<>>, err |-> "Common name is not UTF-8"]
        ELSE [s |-> s, err |-> NoErr]

\* Variant: well-formedness is tested before the length.
sanitizeCommonName_EncodingFirst(name) ==
    LET s == TrimSpace(name)
    IN  IF ByteLen(s) = 0
        THEN [s |-> <<>>, err |-> "Common name is empty"]
        ELSE IF ~ValidString(s)
        THEN [s |-> <<>>, err |-> "Common name is not UTF-8"]
        ELSE IF ByteLen(s) > nameMaxLen
        THEN [s |-> <<>>, err |-> "Common name length is greater than 255"]
        ELSE [s |-> s, err |-> NoErr]

sanitizeCommonName(name) ==
    LET s == TrimSpace(name)
    IN  IF ByteLen(s) = 0
        THEN [s |-> <<>>, err |-> "Common name is empty"]
        ELSE IF ByteLen(s) > nameMaxLen
        THEN [s |-> <<>>, err |-> "Common name length is greater than 255"]
        ELSE IF ~ValidString(s)
        THEN [s |-> <<>>, err |-> "Common name is not UTF-8"]
        ELSE [s |-> s, err |-> NoErr]

\* Variant: the name is tested and returned as it came, untrimmed.
sanitizeScientificName_NoTrim(name) ==
    LET s == name
    IN  IF ByteLen(s) > nameMaxLen
        THEN [s |-> <<>>, err |-> "Scientific name length is greater than 255"]
        ELSE IF ~isAscii(s)
        THEN [s |-> <<>>, err |-> "Specific name is not ASCII"]
        ELSE [s |-> s, err |-> NoErr]

sanitizeScientificName(name) ==
    LET s == TrimSpace(name)
    IN  IF ByteLen(s) > nameMaxLen
        THEN [s |-> <<>>, err |-> "Scientific name length is greater than 255"]
        ELSE IF ~isAscii(s)
        THEN [s |-> <<>>, err |-> "Specific name is not ASCII"]
        ELSE [s |-> s, err |-> NoErr]

(***************************************************************************)
(* Decimal text: strconv.Itoa and strconv.Atoi over sequences of one-      *)
(* character strings.  Identifiers stay far below the 64-bit range, so     *)
(* the range error of Atoi is out of reach of the inputs used here.        *)
(***************************************************************************)
Digits == <<"0", "1", "2", "3", "4", "5", "6", "7", "8", "9">>

DigitVal(d) == CHOOSE v \in 0..9 : Digits[v + 1] = d

IsDigit(d) == \E v \in 0..9 : Digits[v + 1] = d

RECURSIVE ItoaNat(_)
ItoaNat(n) ==
    IF n < 10 THEN <<Digits[n + 1]>>
    ELSE Append(ItoaNat(n \div 10), Digits[(n % 10) + 1])

Itoa(n) == IF n < 0 THEN <<"-">> \o ItoaNat(0 - n) ELSE ItoaNat(n)

RECURSIVE DigitsVal(_)
DigitsVal(t) ==
    IF t = <<>> THEN 0
    ELSE 10 * DigitsVal(SubSeq(t, 1, Len(t) - 1)) + DigitVal(t[Len(t)])

\* Variant: text that is not a number converts to 0 without an error.
Atoi_ZeroOnSyntax(t) ==
    LET signed == t # <<>> /\ t[1] \in {"+", "-"}
        body == IF signed THEN Tail(t) ELSE t
    IN  IF body = <<>> \/ \E i \in 1..Len(body) : ~IsDigit(body[i])
        THEN [n |-> 0, err |-> NoErr]
        ELSE [n |-> IF signed /\ t[1] = "-" THEN 0 - DigitsVal(body)
                    ELSE DigitsVal(body),
              err |-> NoErr]

Atoi(t) ==
    LET signed == t # <<>> /\ t[1] \in {"+", "-"}
        body == IF signed THEN Tail(t) ELSE t
    IN  IF body = <<>> \/ \E i \in 1..Len(body) : ~IsDigit(body[i])
        THEN [n |-> 0, err |-> "strconv.Atoi: invalid syntax"]
        ELSE [n |-> IF signed /\ t[1] = "-" THEN 0 - DigitsVal(body)
                    ELSE DigitsVal(body),
              err |-> NoErr]

(***************************************************************************)
(* Requests.  A request names its route and carries a method, the path     *)
(* identifier (routes with {id}), whether its body parses as a form, and   *)
(* the form fields; PostForm.Get yields the empty string for a field that  *)
(* is missing, and a body that does not parse has no fields.               *)
(***************************************************************************)
Methods == {"GET", "HEAD", "POST", "DELETE"}

NoText == <<>>
Str(c, n) == <<<<c, n>>>>
Padded(c) == <<<<"sp", 1>>, <<c, 1>>, <<"sp", 1>>>>
TooLong(c) == <<<<"a", 255>>, <<c, 1>>>>

Form(cn, gn, sn) == [common |-> cn, generic |-> gn, specific |-> sn]

ValidForms ==
    { Form(Padded("a"), NoText, NoText),
      Form(Str("eacute", 1), Padded("b"), Str("a", 1)) }

InvalidForms ==
    { Form(NoText, NoText, NoText),
      Form(Str("sp", 1), Padded("b"), NoText),
      Form(Str("xff", 1), NoText, NoText),
      Form(TooLong("a"), Padded("b"), NoText),
      Form(Padded("a"), Str("eacute", 1), NoText),
      Form(Padded("a"), Padded("b"), Str("eacute", 1)),
      Form(Padded("a"), TooLong("b"), Str("eacute", 1)),
      Form(Padded("a"), Str("eacute", 1), TooLong("b")),
      Form(NoText, TooLong("b"), Str("eacute", 1)),
      Form(Str("xff", 1), Str("eacute", 1), TooLong("b")) }

Forms == ValidForms \cup InvalidForms

EntryInputs == { NoText, Padded("a") }

InitialSeqValues == {1, 9}

PathIds ==
    { <<"1">>, <<"9">>, <<"1", "0">>, <<"x">>, <<"1", "x">>, <<"+", "1">> }

Request(route, method, id, formOk, form, entry) ==
    [route |-> route, method |-> method, id |-> id, formOk |-> formOk,
     common |-> form.common, generic |-> form.generic,
     specific |-> form.specific, entry |-> entry]

NoForm == Form(NoText, NoText, NoText)

NoRequest == Request("none", "GET", NoText, TRUE, NoForm, NoText)

ListRequests ==
    {Request("list", m, NoText, TRUE, NoForm, NoText) : m \in Methods}

NewRequests ==
    {Request("new", "POST", NoText, TRUE, f, NoText) : f \in Forms}
    \cup {Request("new", m, NoText, TRUE, f, NoText) :
            m \in Methods,
            f \in {Form(Padded("a"), NoText, NoText), NoForm}}
    \cup {Request("new", "POST", NoText, FALSE, NoForm, NoText)}

InfoRequests ==
    {Request("info", m, id, TRUE, NoForm, NoText) :
        m \in Methods, id \in PathIds}

LogRequests ==
    {Request("log", "POST", id, TRUE, NoForm, e) :
        id \in PathIds, e \in EntryInputs}
    \cup {Request("log", m, id, TRUE, NoForm, Padded("a")) :
            m \in Methods, id \in PathIds}
    \cup {Request("log", "POST", id, FALSE, NoForm, NoText) : id \in PathIds}

(***************************************************************************)
(* Responses.  A body is a record whose kind tells what was written:       *)
(* "none" (nothing), "error" (the message http.Error was given, which it   *)
(* writes as one line of text/plain), "decimal" (digits written by         *)
(* Fprintf), "json" (the value handed to the JSON encoder, keyed by the    *)
(* json tags of its type).  contentLength is the text of the header, empty *)
(* unless the handler sets the header itself.                              *)
(***************************************************************************)
NoBody == [kind |-> "none"]

Response(status, ctype, clen, body) ==
    [status |-> status, contentType |-> ctype, contentLength |-> clen,
     body |-> body]

NoResponse == Response(0, "", NoText, NoBody)

HttpError(msg, code) ==
    Response(code, "text/plain; charset=utf-8", NoText,
             [kind |-> "error", msg |-> msg])

jsonPlantShortDesc(p) == [id |-> p.Id, common_name |-> p.CommonName]

jsonPlantLog(l) ==
    [id |-> l.Id, plant_id |-> l.PlantId, desc |-> l.Desc,
     event_type |-> l.EventType]

jsonPlant(p) ==
    [id |-> p.Id, common_name |-> p.CommonName,
     generic_name |-> p.GenericName, specific_name |-> p.SpecificName,
     logs |-> [i \in 1..Len(p.Logs) |-> jsonPlantLog(p.Logs[i])]]

\* The number of bytes json.Encoder.Encode writes for a slice of
\* PlantShortDesc: {"id":N,"common_name":"S"} per element, commas between
\* the elements, the two brackets and the final newline.  The names in use
\* hold no character that the encoder escapes.
jsonPlantShortDescLen(p) ==
    6 + Len(Itoa(p.Id)) + 15 + 2 + ByteLen(p.CommonName) + 1

RECURSIVE jsonElementsLen(_)
jsonElementsLen(plants) ==
    IF plants = <<>> THEN 0
    ELSE jsonPlantShortDescLen(Head(plants))
            + (IF Len(plants) > 1 THEN 1 ELSE 0)
            + jsonElementsLen(Tail(plants))

EncodeLen(plants) == 1 + jsonElementsLen(plants) + 1 + 1

(***************************************************************************)
(* State.                                                                  *)
(*   plant, plant_log        the two tables, keyed by their serial id      *)
(*   plant_id_seq,                                                         *)
(*   plant_log_id_seq        next value of each serial sequence            *)
(*   req, resp               the request last served and its response      *)
(*   calls                   the sanitizer and persistence-port calls made *)
(*                           while serving req, in order                   *)
(*   fault                   the store call of req (counted from 1) that   *)
(*                           the store failed for its own reasons, or 0    *)
(*   ret                     what the last persistence-port call of req    *)
(*                           handed back to the handler                    *)
(*   sanIn, sanFn, sanOut    a sanitizer's input, which sanitizer ran and  *)
(*                           what it returned (specification SanSpec)      *)
(*   dburl                   the value of HORTUS_DB_URL                    *)
(*   tables                  the tables that exist in hortus_schema        *)
(*   pc                      where main stands: "main" before Connect,     *)
(*                           "connected" after it returned, then "serving" *)
(*                           or "exited"                                   *)
(*   connErr                 what Connect returned                         *)
(*   conns                   the pool's open connections: the search_path  *)
(*                           of each                                       *)
(*   held                    per request in flight, the connection it has  *)
(*                           checked out (0 for none)                      *)
(*   issued                  the statements requests have run: connection, *)
(*                           its search_path at the time, and the outcome  *)
(*   pool                    the adapter's pool field: "nil" until         *)
(*                           pgxpool.New has succeeded, then "open", and   *)
(*                           "closed" after Close                          *)
(*   closeRet                how the last call of Close ended              *)
(*   maxConns                the largest number of connections the pool    *)
(*                           opens                                         *)
(*   run                     for each request in flight, the request, the  *)
(*                           handler's position in it and what it has got  *)
(*   webReq, webResp         the request the web tier served last and its  *)
(*                           response (specification WebSpec)              *)
(***************************************************************************)
VARIABLES plant, plant_log, plant_id_seq, plant_log_id_seq,
          req, resp, calls, fault, ret, sanIn, sanFn, sanOut,
          dburl, tables, pc, connErr, conns, held, issued, pool, closeRet,
          maxConns, webReq, webResp, run

store == <<plant, plant_log, plant_id_seq, plant_log_id_seq>>
sanVars == <<sanIn, sanFn, sanOut>>
mainVars == <<dburl, tables, pc, connErr, conns, held, issued, pool,
              closeRet, maxConns>>
webVars == <<webReq, webResp>>
vars == <<plant, plant_log, plant_id_seq, plant_log_id_seq,
          req, resp, calls, fault, ret, sanIn, sanFn, sanOut,
          dburl, tables, pc, connErr, conns, held, issued, pool, closeRet,
          maxConns, webReq, webResp, run>>

PortOps == {"GetPlantsShortDescription", "AddNewPlant", "GetPlantNames",
            "GetPlantLogs", "AddNewPlantLog"}

EmptyTable == <<>>

NoSanResult == [s |-> <<>>, err |-> "not run"]

NoReturn == [err |-> "not called"]

(***************************************************************************)
(* The store's side of the statements the adapter issues.                  *)
(***************************************************************************)
\* The orders in which a SELECT without ORDER BY may deliver the rows ids.
RowOrders(ids) ==
    {o \in [1..Cardinality(ids) -> ids] :
        \A i, j \in 1..Cardinality(ids) : o[i] = o[j] => i = j}

\* Variant: the sequence hands out its current value again.
Nextval_Same(seq) == seq

\* id SERIAL: the value the sequence holds after one was drawn.
Nextval(seq) == seq + 1

\* plant: common_name VARCHAR(255) NOT NULL, CHECK (common_name <> ''),
\* generic_name and specific_name VARCHAR(255).
PlantRowAccepted(comm, gen, spe) ==
    /\ comm # <<>>
    /\ \A x \in {comm, gen, spe} : ValidString(x) /\ RuneCount(x) <= 255

\* Variant: every identifier is paired with the name of the first row.
ShortDescs_FirstName(order) ==
    [i \in 1..Len(order) |->
        [Id |-> order[i], CommonName |-> plant[order[1]].common_name]]

ShortDescs(order) ==
    [i \in 1..Len(order) |->
        [Id |-> order[i], CommonName |-> plant[order[i]].common_name]]

\* Variant: the WHERE clause is dropped, every log row is selected.
LogsOf_All(id) == DOMAIN plant_log

LogsOf(id) == {l \in DOMAIN plant_log : plant_log[l].plant_id = id}

PlantLogs(order) ==
    [i \in 1..Len(order) |->
        [Id |-> order[i], PlantId |-> plant_log[order[i]].plant_id,
         Desc |-> plant_log[order[i]].description,
         EventType |-> plant_log[order[i]].event_type]]

NoRows == "no rows in result set"

\* Variant: a missing row scans as three empty names and no error.
GetPlantNames_EmptyOnMiss(id) ==
    IF id \in DOMAIN plant
    THEN [comm |-> plant[id].common_name, gen |-> plant[id].generic_name,
          spe |-> plant[id].specific_name, err |-> NoErr]
    ELSE [comm |-> NoText, gen |-> NoText, spe |-> NoText, err |-> NoErr]

\* SELECT * FROM plant WHERE id=$1 scanned into the three names: Scan fails
\* with the no-rows error when no row has this id.
GetPlantNames(id) ==
    IF id \in DOMAIN plant
    THEN [comm |-> plant[id].common_name, gen |-> plant[id].generic_name,
          spe |-> plant[id].specific_name, err |-> NoErr]
    ELSE [comm |-> NoText, gen |-> NoText, spe |-> NoText,
          err |-> NoRows]

\* Variant: no row for the plant is reported as the no-rows error.
GetPlantLogs_ErrorOnNone(id, order) ==
    IF order = <<>>
    THEN [plantLogs |-> <<>>, err |-> NoRows]
    ELSE [plantLogs |-> PlantLogs(order), err |-> NoErr]

\* SELECT * FROM plant_log WHERE plant_id=$1 collected into a slice, the
\* rows arriving in the given order: no row gives the empty slice.
GetPlantLogs(id, order) == [plantLogs |-> PlantLogs(order), err |-> NoErr]

(***************************************************************************)
(* Request handlers.  Each action serves the request r from start to end.  *)
(* A store call may fail for a reason of the store's own (connection lost, *)
(* statement refused); fault then records which call of the request did.   *)
(***************************************************************************)
StoreError == "store error"
ParseFormError == "invalid form body"

JsonType == "application/json; charset=utf-8"
HtmlType == "text/html; charset=utf-8"

\* Variant: the add-log handler also lets GET through.
AllowedMethods_LogGet(route) ==
    CASE route = "list" -> {"HEAD", "GET"}
      [] route = "new" -> {"POST"}
      [] route = "info" -> {"GET", "HEAD"}
      [] route = "log" -> {"POST", "GET"}

\* The methods each handler lets through its first test.
AllowedMethods(route) ==
    CASE route = "list" -> {"HEAD", "GET"}
      [] route = "new" -> {"POST"}
      [] route = "info" -> {"GET", "HEAD"}
      [] route = "log" -> {"POST"}

\* Variant: the answer to a store failure hides the store's error text.
StoreFailure_Generic(err) ==
    HttpError("Internal Server Error", StatusInternalServerError)

\* http.Error(w, err.Error(), http.StatusInternalServerError): the answer
\* to a failed call of the persistence port.
StoreFailure(err) == HttpError(err, StatusInternalServerError)

\* Variant: the generic name is sanitized before the common name.
SanitizeForm_GenericFirst(r) ==
    LET comm == sanitizeCommonName(r.common)
        gen == sanitizeScientificName(r.generic)
        spe == sanitizeScientificName(r.specific)
    IN  IF gen.err # NoErr
        THEN [err |-> gen.err, calls |-> <<"sanitize generic-name">>,
              comm |-> NoText, gen |-> NoText, spe |-> NoText]
        ELSE IF comm.err # NoErr
        THEN [err |-> comm.err,
              calls |-> <<"sanitize generic-name", "sanitize common-name">>,
              comm |-> NoText, gen |-> gen.s, spe |-> NoText]
        ELSE [err |-> spe.err,
              calls |-> <<"sanitize generic-name", "sanitize common-name",
                          "sanitize specific-name">>,
              comm |-> comm.s, gen |-> gen.s, spe |-> spe.s]

\* The validation of the create-plant form: the error of the first field
\* that fails (NoErr when none does), the sanitizer calls made, and the
\* sanitized names.
SanitizeForm(r) ==
    LET comm == sanitizeCommonName(r.common)
        gen == sanitizeScientificName(r.generic)
        spe == sanitizeScientificName(r.specific)
    IN  IF comm.err # NoErr
        THEN [err |-> comm.err, calls |-> <<"sanitize common-name">>,
              comm |-> NoText, gen |-> NoText, spe |-> NoText]
        ELSE IF gen.err # NoErr
        THEN [err |-> gen.err,
              calls |-> <<"sanitize common-name", "sanitize generic-name">>,
              comm |-> comm.s, gen |-> NoText, spe |-> NoText]
        ELSE [err |-> spe.err,
              calls |-> <<"sanitize common-name", "sanitize generic-name",
                          "sanitize specific-name">>,
              comm |-> comm.s, gen |-> gen.s, spe |-> spe.s]

\* Variant: Content-Length carries the identifier instead of its length.
NewPlantCreated_LengthIsId(id) ==
    Response(StatusOK, HtmlType, Itoa(id),
             [kind |-> "decimal", digits |-> Itoa(id)])

\* The response to a create-plant request that inserted the plant id.
NewPlantCreated(id) ==
    Response(StatusOK, HtmlType, Itoa(Len(Itoa(id))),
             [kind |-> "decimal", digits |-> Itoa(id)])

\* Variant: the positional literal takes the names in another order.
PlantOf_NamesSwapped(id, comm, gen, spe, plantLogs) ==
    [Id |-> id, CommonName |-> gen, GenericName |-> comm,
     SpecificName |-> spe, Logs |-> plantLogs]

\* The Plant value the info handler assembles from its two store calls.
PlantOf(id, comm, gen, spe, plantLogs) ==
    [Id |-> id, CommonName |-> comm, GenericName |-> gen,
     SpecificName |-> spe, Logs |-> plantLogs]

PlantsListHandler(r) ==
    /\ req' = r
    /\ UNCHANGED <<store, sanVars>>
    /\ IF r.method \notin AllowedMethods("list")
       THEN /\ resp' = HttpError(notAllowed, StatusMethodNotAllowed)
            /\ calls' = <<>>
            /\ fault' = 0
            /\ ret' = NoReturn
       ELSE /\ calls' = <<"GetPlantsShortDescription">>
            /\ \/ /\ fault' = 1
                  /\ ret' = [plants |-> <<>>, err |-> StoreError]
                  /\ resp' = StoreFailure(StoreError)
               \/ /\ fault' = 0
                  /\ \E order \in RowOrders(DOMAIN plant) :
                     LET plants == ShortDescs(order)
                     IN  /\ ret' = [plants |-> plants, err |-> NoErr]
                         /\ resp' = Response(StatusOK, JsonType, NoText,
                             IF r.method = "GET"
                             THEN [kind |-> "json",
                                   value |-> [i \in 1..Len(plants) |->
                                               jsonPlantShortDesc(plants[i])]]
                             ELSE NoBody)

NewPlantHandler(r) ==
    LET form == SanitizeForm(r)
        id == plant_id_seq
    IN
    /\ req' = r
    /\ UNCHANGED <<plant_log, plant_log_id_seq, sanVars>>
    /\ IF r.method \notin AllowedMethods("new")
       THEN /\ resp' = HttpError(notAllowed, StatusMethodNotAllowed)
            /\ calls' = <<>>
            /\ fault' = 0
            /\ ret' = NoReturn
            /\ UNCHANGED <<plant, plant_id_seq>>
       ELSE IF ~r.formOk
       THEN /\ resp' = HttpError(ParseFormError, StatusBadRequest)
            /\ calls' = <<>>
            /\ fault' = 0
            /\ ret' = NoReturn
            /\ UNCHANGED <<plant, plant_id_seq>>
       ELSE IF form.err # NoErr
       THEN /\ resp' = HttpError(form.err, StatusBadRequest)
            /\ calls' = form.calls
            /\ fault' = 0
            /\ ret' = NoReturn
            /\ UNCHANGED <<plant, plant_id_seq>>
       ELSE /\ calls' = Append(form.calls, "AddNewPlant")
            /\ \/ /\ fault' = 1
                  /\ ret' = [id |-> 0, err |-> StoreError]
                  /\ resp' = StoreFailure(StoreError)
                  /\ UNCHANGED <<plant, plant_id_seq>>
               \/ /\ fault' = 0
                  /\ IF ~PlantRowAccepted(form.comm, form.gen, form.spe)
                     THEN /\ ret' = [id |-> 0, err |-> StoreError]
                          /\ resp' = StoreFailure(StoreError)
                          /\ UNCHANGED <<plant, plant_id_seq>>
                     ELSE /\ Cardinality(DOMAIN plant) < MaxPlants
                          /\ plant' = plant @@
                                 (id :> [common_name |-> form.comm,
                                         generic_name |-> form.gen,
                                         specific_name |-> form.spe])
                          /\ plant_id_seq' = Nextval(plant_id_seq)
                          /\ ret' = [id |-> id, err |-> NoErr]
                          /\ resp' = NewPlantCreated(id)

PlantInfoHandler(r) ==
    LET a == Atoi(r.id)
        id == a.n
        names == GetPlantNames(id)
    IN
    /\ req' = r
    /\ UNCHANGED <<store, sanVars>>
    /\ IF r.method \notin AllowedMethods("info")
       THEN /\ resp' = HttpError(notAllowed, StatusMethodNotAllowed)
            /\ calls' = <<>>
            /\ fault' = 0
            /\ ret' = NoReturn
       ELSE IF a.err # NoErr
       THEN /\ resp' = HttpError(a.err, StatusBadRequest)
            /\ calls' = <<>>
            /\ fault' = 0
            /\ ret' = NoReturn
       ELSE \/ /\ fault' = 1
               /\ calls' = <<"GetPlantNames">>
               /\ ret' = [comm |-> NoText, gen |-> NoText, spe |-> NoText,
                          err |-> StoreError]
               /\ resp' = StoreFailure(StoreError)
            \/ /\ names.err # NoErr
               /\ fault' = 0
               /\ calls' = <<"GetPlantNames">>
               /\ ret' = names
               /\ resp' = StoreFailure(names.err)
            \/ /\ names.err = NoErr
               /\ calls' = <<"GetPlantNames", "GetPlantLogs">>
               /\ \/ /\ fault' = 2
                     /\ ret' = [plantLogs |-> <<>>, err |-> StoreError]
                     /\ resp' = StoreFailure(StoreError)
                  \/ /\ fault' = 0
                     /\ \E order \in RowOrders(LogsOf(id)) :
                        LET p == PlantOf(id, names.comm, names.gen, names.spe,
                                         PlantLogs(order))
                        IN  /\ ret' = GetPlantLogs(id, order)
                            /\ resp' = Response(StatusOK, JsonType, NoText,
                                IF r.method = "GET"
                                THEN [kind |-> "json", value |-> jsonPlant(p)]
                                ELSE NoBody)

\* Variant: the foreign key of plant_log is not enforced.
PlantLogRowAccepted_NoForeignKey(id, desc) ==
    ValidString(desc) /\ RuneCount(desc) <= 255

\* plant_log: description VARCHAR(255) NOT NULL, plant_id REFERENCES plant.
PlantLogRowAccepted(id, desc) ==
    /\ id \in DOMAIN plant
    /\ ValidString(desc) /\ RuneCount(desc) <= 255

\* Variant: the description is trimmed like the names of a plant.
NewEntry_Trimmed(r) == TrimSpace(r.entry)

\* r.PostForm.Get("new-entry"): the field as it was sent.
NewEntry(r) == r.entry

\* Variant: the identifier scanned from RETURNING id is handed back too.
AddNewPlantLogReturn_WithId(logId, err) == [id |-> logId, err |-> err]

\* What AddNewPlantLog returns: its error alone; logId stays local.
AddNewPlantLogReturn(logId, err) == [err |-> err]

NewPlantLogHandler(r) ==
    LET a == Atoi(r.id)
        id == a.n
        desc == NewEntry(r)
        logId == plant_log_id_seq
    IN
    /\ req' = r
    /\ UNCHANGED <<plant, plant_id_seq, sanVars>>
    /\ IF r.method \notin AllowedMethods("log")
       THEN /\ resp' = HttpError(notAllowed, StatusMethodNotAllowed)
            /\ calls' = <<>>
            /\ fault' = 0
            /\ ret' = NoReturn
            /\ UNCHANGED <<plant_log, plant_log_id_seq>>
       ELSE IF ~r.formOk
       THEN /\ resp' = HttpError(ParseFormError, StatusBadRequest)
            /\ calls' = <<>>
            /\ fault' = 0
            /\ ret' = NoReturn
            /\ UNCHANGED <<plant_log, plant_log_id_seq>>
       ELSE IF a.err # NoErr
       THEN /\ resp' = HttpError(a.err, StatusBadRequest)
            /\ calls' = <<>>
            /\ fault' = 0
            /\ ret' = NoReturn
            /\ UNCHANGED <<plant_log, plant_log_id_seq>>
       ELSE /\ calls' = <<"AddNewPlantLog">>
            /\ \/ /\ fault' = 1
                  /\ ret' = AddNewPlantLogReturn(0, StoreError)
                  /\ resp' = StoreFailure(StoreError)
                  /\ UNCHANGED <<plant_log, plant_log_id_seq>>
               \/ /\ fault' = 0
                  /\ IF ~PlantLogRowAccepted(id, desc)
                     THEN /\ ret' = AddNewPlantLogReturn(0, StoreError)
                          /\ resp' = StoreFailure(StoreError)
                          /\ UNCHANGED <<plant_log, plant_log_id_seq>>
                     ELSE /\ Cardinality(DOMAIN plant_log) < MaxLogs
                          /\ plant_log' = plant_log @@
                                 (logId :> [plant_id |-> id,
                                            description |-> desc,
                                            event_type |-> 0])
                          /\ plant_log_id_seq' = Nextval(plant_log_id_seq)
                          /\ ret' = AddNewPlantLogReturn(logId, NoErr)
                          /\ resp' = Response(StatusOK, HtmlType, NoText,
                                              NoBody)

(***************************************************************************)
(* The start of the server and the connection pool.  main calls Connect    *)
(* and stops on its error, otherwise it serves.  The pool opens its        *)
(* connections when they are asked for: a statement takes an idle          *)
(* connection, or a new one when none is idle, runs on it and gives it     *)
(* back.  A connection starts with the search_path of the server's         *)
(* configuration; SET search_path changes it for that connection alone.    *)
(***************************************************************************)
RequiredTables == {"plant", "plant_log"}
HortusSchema == "hortus_schema"
DefaultPath == "public"

UrlNotSet == "database: Database URL not set"
SchemaNotFound == "database: Schema and tables not found"
UndefinedTable == "relation \"plant\" does not exist"

DbUrls == {"", "postgres://hortus@db/hortus", "hortus"}

\* pgxpool.New parses the URL and fails on text that is neither a URL nor
\* a list of settings.
UrlParses(u) == u = "postgres://hortus@db/hortus"

\* SELECT EXISTS (SELECT FROM pg_tables WHERE schemaname = 'hortus_schema'
\* AND (tablename = 'plant' OR tablename = 'plant_log')).
TablesExist(ts) == \E t \in ts : t = "plant" \/ t = "plant_log"

Slots == 1..MaxInFlight

NoneHeld == [s \in Slots |-> 0]

Idle == {c \in 1..Len(conns) : \A s \in Slots : held[s] # c}

\* Connect, from its first statement to its return.  Its two statements
\* run one after the other, so the second takes the connection the first
\* opened and gave back.
Connect ==
    /\ pc = "main"
    /\ pc' = "connected"
    /\ UNCHANGED <<maxConns, dburl, tables, held, issued, closeRet>>
    /\ IF dburl = ""
       THEN connErr' = UrlNotSet /\ conns' = <<>> /\ pool' = pool
       ELSE IF ~UrlParses(dburl)
       THEN connErr' = StoreError /\ conns' = <<>> /\ pool' = pool
       ELSE /\ pool' = "open"
            /\ \/ connErr' = StoreError /\ conns' = <<>>
               \/ /\ ~TablesExist(tables)
                  /\ connErr' = SchemaNotFound
                  /\ conns' = <<DefaultPath>>
               \/ /\ TablesExist(tables)
                  /\ \/ connErr' = StoreError /\ conns' = <<DefaultPath>>
                     \/ connErr' = NoErr /\ conns' = <<HortusSchema>>

\* main: log.Fatal on the error of Connect.
Fatal ==
    /\ pc = "connected" /\ connErr # NoErr
    /\ pc' = "exited"
    /\ UNCHANGED <<maxConns, dburl, tables, connErr, conns, held, issued, pool,
                   closeRet>>

\* main: the routes are registered and the server listens.
ListenAndServe ==
    /\ pc = "connected" /\ connErr = NoErr
    /\ pc' = "serving"
    /\ UNCHANGED <<maxConns, dburl, tables, connErr, conns, held, issued, pool,
                   closeRet>>

\* A request's store call asks the pool for a connection.
Acquire(s) ==
    /\ pc = "serving" /\ pool = "open" /\ held[s] = 0
    /\ IF Idle # {}
       THEN /\ \E c \in Idle : held' = [held EXCEPT ![s] = c]
            /\ UNCHANGED conns
       ELSE /\ Len(conns) < maxConns
            /\ conns' = Append(conns, DefaultPath)
            /\ held' = [held EXCEPT ![s] = Len(conns) + 1]
    /\ UNCHANGED <<maxConns, dburl, tables, pc, connErr, issued, pool, closeRet>>

\* Variant: the connection stays with the request after its statement.
Release_Leaked(h, s) == h

\* The rows of a statement are closed when they have been collected or
\* scanned, or when the statement failed: the connection goes back to the
\* pool.
Release(h, s) == [h EXCEPT ![s] = 0]

\* The statement (SELECT id, common_name FROM plant) runs on the
\* connection taken, with that connection's search_path, the rows are
\* collected and the connection goes back to the pool.
Query(s) ==
    /\ pc = "serving" /\ held[s] # 0
    /\ LET c == held[s]
           path == conns[c]
       IN  issued' = issued \cup
               {[conn |-> c, path |-> path,
                 err |-> IF path = HortusSchema /\ "plant" \in tables
                         THEN NoErr ELSE UndefinedTable]}
    /\ held' = Release(held, s)
    /\ UNCHANGED <<maxConns, dburl, tables, pc, connErr, conns, pool,
                   closeRet>>

\* Close: the pool waits for the connections that are checked out, closes
\* every connection and the call returns nil; a second Close of the pool
\* does nothing.  On an adapter whose pool field is still nil the method
\* call dereferences the nil pointer and the program panics.
Close ==
    /\ pc # "exited"
    /\ held = NoneHeld
    /\ IF pool = "nil"
       THEN /\ closeRet' = "panic"
            /\ pc' = "exited"
            /\ UNCHANGED <<pool, conns>>
       ELSE /\ closeRet' = NoErr
            /\ pool' = "closed"
            /\ conns' = <<>>
            /\ pc' = pc
    /\ UNCHANGED <<maxConns, dburl, tables, connErr, held, issued>>

\* The adapter's two read operations called on a connected adapter, with
\* any identifier.
PortIds == {1, 2, 3}

PortCall(op, id) ==
    Request("port", op, Itoa(id), TRUE, NoForm, NoText)

PortGetPlantNames ==
    /\ pc = "connected" /\ connErr = NoErr /\ pool = "open"
    /\ \E id \in PortIds :
          /\ req' = PortCall("GetPlantNames", id)
          /\ calls' = <<"GetPlantNames">>
          /\ \/ /\ fault' = 1
                /\ ret' = [comm |-> NoText, gen |-> NoText, spe |-> NoText,
                           err |-> StoreError]
             \/ /\ fault' = 0
                /\ ret' = GetPlantNames(id)
    /\ UNCHANGED <<store, resp, sanVars, mainVars, webVars, run>>

PortGetPlantLogs ==
    /\ pc = "connected" /\ connErr = NoErr /\ pool = "open"
    /\ \E id \in PortIds :
          /\ req' = PortCall("GetPlantLogs", id)
          /\ calls' = <<"GetPlantLogs">>
          /\ \/ /\ fault' = 1
                /\ ret' = [plantLogs |-> <<>>, err |-> StoreError]
             \/ /\ fault' = 0
                /\ \E order \in RowOrders(LogsOf(id)) :
                      ret' = GetPlantLogs(id, order)
    /\ UNCHANGED <<store, resp, sanVars, mainVars, webVars, run>>

(***************************************************************************)
(* Requests in flight.  The server runs each request in a goroutine of its *)
(* own; the handlers share nothing but the adapter's pool.  A request is   *)
(* taken up, runs its store calls one after the other, each call taking a  *)
(* connection from the pool, running one statement on it and giving it     *)
(* back, and writes its response.                                          *)
(***************************************************************************)
NoRun ==
    [r |-> NoRequest, step |-> "idle", op |-> "none", status |-> 0,
     fault |-> FALSE, id |-> 0, logs |-> {}, between |-> {},
     responses |-> 0]

\* What a handler answers before any store call: the method test, the
\* parsing of the form, the sanitizers and the parsing of the identifier.
Precheck(r) ==
    IF r.method \notin AllowedMethods(r.route)
    THEN HttpError(notAllowed, StatusMethodNotAllowed)
    ELSE IF r.route \in {"new", "log"} /\ ~r.formOk
    THEN HttpError(ParseFormError, StatusBadRequest)
    ELSE IF r.route = "new" /\ SanitizeForm(r).err # NoErr
    THEN HttpError(SanitizeForm(r).err, StatusBadRequest)
    ELSE IF r.route \in {"info", "log"} /\ Atoi(r.id).err # NoErr
    THEN HttpError(Atoi(r.id).err, StatusBadRequest)
    ELSE NoResponse

\* The first store call of each handler.
FirstOp(route) ==
    CASE route = "list" -> "GetPlantsShortDescription"
      [] route = "new" -> "AddNewPlant"
      [] route = "info" -> "GetPlantNames"
      [] route = "log" -> "AddNewPlantLog"

\* Variant: a failed store call is made again.
NextStep_Retry(op, err) ==
    IF err # NoErr THEN "call"
    ELSE IF op = "GetPlantNames" THEN "call"
    ELSE "respond"

\* Where a handler goes when a store call has returned: to its answer on
\* an error, to the second call after the names of the info page, to its
\* answer otherwise.
NextStep(op, err) ==
    IF err # NoErr THEN "respond"
    ELSE IF op = "GetPlantNames" THEN "call"
    ELSE "respond"

NextOp(op, err) ==
    IF err = NoErr /\ op = "GetPlantNames" THEN "GetPlantLogs" ELSE op

After(me, err, isFault) ==
    [me EXCEPT !.step = NextStep(me.op, err),
               !.op = NextOp(me.op, err),
               !.status = IF NextStep(me.op, err) # "respond" THEN 0
                          ELSE IF err # NoErr
                          THEN StatusInternalServerError
                          ELSE StatusOK,
               !.fault = isFault]

\* Variant: the logs are read as of the time the names were read.
LogsSeen_Snapshot(id, between) == LogsOf(id) \ between

\* The second statement of the info page runs by itself, with no
\* transaction around the two: it sees the rows of plant_log as they are
\* when it runs.
LogsSeen(id, between) == LogsOf(id)

ConcRequests ==
    {Request("new", "POST", NoText, TRUE, f, NoText) : f \in ValidForms}
    \cup {Request("new", "GET", NoText, TRUE, NoForm, NoText),
          Request("new", "POST", NoText, FALSE, NoForm, NoText),
          Request("new", "POST", NoText, TRUE, NoForm, NoText),
          Request("info", "GET", <<"1">>, TRUE, NoForm, NoText),
          Request("log", "POST", <<"1">>, TRUE, NoForm, Str("a", 1)),
          Request("list", "GET", NoText, TRUE, NoForm, NoText)}

\* The server hands a request to its handler, which runs up to its first
\* store call or to its rejection of the request.
Begin(s) ==
    /\ pc = "serving" /\ run[s].step = "idle"
    /\ \E r \in ConcRequests :
          LET pre == Precheck(r)
          IN  run' = [run EXCEPT ![s] =
                  IF pre # NoResponse
                  THEN [NoRun EXCEPT !.r = r, !.step = "respond",
                                     !.status = pre.status]
                  ELSE [NoRun EXCEPT !.r = r, !.step = "call",
                                     !.op = FirstOp(r.route)]]
    /\ UNCHANGED <<store, req, resp, calls, fault, ret, sanVars, mainVars,
                   webVars>>

\* The statement of the store call runs on the connection taken, with that
\* connection's search_path, and the connection goes back to the pool.
Statement(s) ==
    /\ pc = "serving" /\ run[s].step = "call" /\ held[s] # 0
    /\ LET me == run[s]
           path == conns[held[s]]
           id == Atoi(me.r.id).n
           form == SanitizeForm(me.r)
           newId == plant_id_seq
           logId == plant_log_id_seq
       IN  IF path # HortusSchema
           THEN /\ run' = [run EXCEPT ![s] = After(me, UndefinedTable, FALSE)]
                /\ UNCHANGED store
           ELSE \/ /\ run' = [run EXCEPT ![s] = After(me, StoreError, TRUE)]
                   /\ UNCHANGED store
                \/ CASE me.op = "GetPlantsShortDescription" ->
                            /\ run' = [run EXCEPT ![s] =
                                          After(me, NoErr, FALSE)]
                            /\ UNCHANGED store
                        [] me.op = "AddNewPlant" ->
                            /\ plant' = plant @@
                                   (newId :> [common_name |-> form.comm,
                                              generic_name |-> form.gen,
                                              specific_name |-> form.spe])
                            /\ plant_id_seq' = Nextval(plant_id_seq)
                            /\ run' = [run EXCEPT ![s] =
                                   [After(me, NoErr, FALSE)
                                       EXCEPT !.id = newId]]
                            /\ UNCHANGED <<plant_log, plant_log_id_seq>>
                        [] me.op = "GetPlantNames" ->
                            /\ run' = [run EXCEPT ![s] =
                                   [After(me, GetPlantNames(id).err, FALSE)
                                       EXCEPT !.id = id]]
                            /\ UNCHANGED store
                        [] me.op = "GetPlantLogs" ->
                            /\ run' = [run EXCEPT ![s] =
                                   [After(me, NoErr, FALSE)
                                       EXCEPT !.logs = LogsSeen(id, me.between)]]
                            /\ UNCHANGED store
                        [] me.op = "AddNewPlantLog" ->
                            IF ~PlantLogRowAccepted(id, NewEntry(me.r))
                            THEN /\ run' = [run EXCEPT ![s] =
                                        After(me, StoreError, FALSE)]
                                 /\ UNCHANGED store
                            ELSE /\ plant_log' = plant_log @@
                                        (logId :> [plant_id |-> id,
                                            description |-> NewEntry(me.r),
                                            event_type |-> 0])
                                 /\ plant_log_id_seq' =
                                        Nextval(plant_log_id_seq)
                                 /\ run' = [t \in Slots |->
                                        IF t = s
                                        THEN [After(me, NoErr, FALSE)
                                                 EXCEPT !.id = id]
                                        ELSE IF /\ run[t].op = "GetPlantLogs"
                                                /\ run[t].step = "call"
                                                /\ run[t].id = id
                                        THEN [run[t] EXCEPT !.between =
                                                 @ \cup {logId}]
                                        ELSE run[t]]
                                 /\ UNCHANGED <<plant, plant_id_seq>>
    /\ held' = Release(held, s)
    /\ UNCHANGED <<req, resp, calls, fault, ret, sanVars, maxConns, dburl,
                   tables, pc, connErr, conns, issued, pool, closeRet,
                   webVars>>

\* The handler writes its one response and returns: what stays of the
\* request is the response sent, its status and, for a plant created, the
\* identifier in its body.
Respond(s) ==
    /\ run[s].step = "respond"
    /\ run' = [run EXCEPT ![s] =
           [NoRun EXCEPT !.step = "done",
                         !.op = run[s].op,
                         !.status = run[s].status,
                         !.id = IF run[s].op = "AddNewPlant"
                                   /\ run[s].status = StatusOK
                                THEN run[s].id ELSE 0,
                         !.responses = run[s].responses + 1]]
    /\ UNCHANGED <<store, req, resp, calls, fault, ret, sanVars, mainVars,
                   webVars>>

(***************************************************************************)
(* The web tier's handler of /plants/new/.  On a POST it forwards the      *)
(* three name fields to the API's create-plant route, reads the whole body *)
(* of the API's response and redirects to the plant list URL followed by   *)
(* that body.                                                              *)
(***************************************************************************)
StatusSeeOther == 303

plantsListUrl == "/plants/"

WebRequest(method, formOk, form) ==
    [method |-> method, formOk |-> formOk, common |-> form.common,
     generic |-> form.generic, specific |-> form.specific]

NoWebRequest == WebRequest("none", TRUE, NoForm)

WebRequests ==
    {WebRequest("POST", TRUE, f) : f \in Forms}
    \cup {WebRequest(m, TRUE, NoForm) : m \in {"GET", "DELETE"}}
    \cup {WebRequest("POST", FALSE, NoForm)}

\* A response of the web tier: its status, what was written ("error" for
\* http.Error, "page" for a template, "redirect" for http.Redirect) and,
\* for a redirect, the URL: a path followed by the body read from the API.
WebResponse(status, kind, url) ==
    [status |-> status, kind |-> kind, url |-> url]

NoUrl == [path |-> "", id |-> NoBody]

NoWebResponse == WebResponse(0, "none", NoUrl)

\* url = e.webUrl + plantsListUrl + id, where id is string(body).
RedirectUrl(body) == [path |-> plantsListUrl, id |-> body]

WebNewPlantHandler(wr) ==
    /\ webReq' = wr
    /\ UNCHANGED <<mainVars, run>>
    /\ IF wr.method \notin {"GET", "POST"}
       THEN /\ webResp' = WebResponse(StatusMethodNotAllowed, "error", NoUrl)
            /\ UNCHANGED <<store, req, resp, calls, fault, ret, sanVars>>
       ELSE IF wr.method = "GET"
       THEN /\ webResp' = WebResponse(StatusOK, "page", NoUrl)
            /\ UNCHANGED <<store, req, resp, calls, fault, ret, sanVars>>
       ELSE IF ~wr.formOk
       THEN /\ webResp' = WebResponse(StatusBadRequest, "error", NoUrl)
            /\ UNCHANGED <<store, req, resp, calls, fault, ret, sanVars>>
       ELSE \/ /\ webResp' = WebResponse(StatusInternalServerError, "error",
                                         NoUrl)
               /\ UNCHANGED <<store, req, resp, calls, fault, ret, sanVars>>
            \/ /\ NewPlantHandler(
                      Request("new", "POST", NoText, TRUE,
                              Form(wr.common, wr.generic, wr.specific),
                              NoText))
               /\ \/ webResp' = WebResponse(StatusInternalServerError,
                                            "error", NoUrl)
                  \/ webResp' = WebResponse(StatusSeeOther, "redirect",
                                            RedirectUrl(resp'.body))

(***************************************************************************)
(* Specification of the API: the server has connected to a database whose  *)
(* tables are empty.  The plant sequence may already have advanced:        *)
(* values drawn by inserts that did not complete are never given back.     *)
(***************************************************************************)
Init ==
    /\ plant = EmptyTable
    /\ plant_log = EmptyTable
    /\ plant_id_seq \in InitialSeqValues
    /\ plant_log_id_seq = 1
    /\ req = NoRequest
    /\ resp = NoResponse
    /\ calls = <<>>
    /\ fault = 0
    /\ ret = NoReturn
    /\ sanIn = NoText
    /\ sanFn = "none"
    /\ sanOut = NoSanResult
    /\ dburl = "postgres://hortus@db/hortus"
    /\ tables = RequiredTables
    /\ pc = "serving"
    /\ connErr = NoErr
    /\ conns = <<HortusSchema>>
    /\ held = NoneHeld
    /\ issued = {}
    /\ pool = "open"
    /\ closeRet = "not called"
    /\ maxConns = MaxConns
    /\ webReq = NoWebRequest
    /\ webResp = NoWebResponse
    /\ run = [s \in Slots |-> NoRun]

ListPlants ==
    /\ \E r \in ListRequests : PlantsListHandler(r)
    /\ UNCHANGED <<mainVars, webVars, run>>

CreatePlant ==
    /\ \E r \in NewRequests : NewPlantHandler(r)
    /\ UNCHANGED <<mainVars, webVars, run>>

GetPlantInfo ==
    /\ \E r \in InfoRequests : PlantInfoHandler(r)
    /\ UNCHANGED <<mainVars, webVars, run>>

AddPlantLog ==
    /\ \E r \in LogRequests : NewPlantLogHandler(r)
    /\ UNCHANGED <<mainVars, webVars, run>>

Next == ListPlants \/ CreatePlant \/ GetPlantInfo \/ AddPlantLog

Spec == Init /\ [][Next]_vars

(***************************************************************************)
(* Specification of the sanitizers alone: an input is drawn and one of     *)
(* the two functions is applied to it.                                     *)
(***************************************************************************)
SanChars == {"a", "sp", "eacute", "nbsp", "xff"}
RunLens == {1, 128, 255}
Runs == SanChars \X RunLens

SanInputs == UNION {[1..n -> Runs] : n \in 0..MaxRuns}

SanInit ==
    /\ plant = EmptyTable
    /\ plant_log = EmptyTable
    /\ plant_id_seq = 1
    /\ plant_log_id_seq = 1
    /\ req = NoRequest
    /\ resp = NoResponse
    /\ calls = <<>>
    /\ fault = 0
    /\ ret = NoReturn
    /\ sanIn \in SanInputs
    /\ sanFn = "none"
    /\ sanOut = NoSanResult
    /\ dburl = ""
    /\ tables = {}
    /\ pc = "main"
    /\ connErr = NoErr
    /\ conns = <<>>
    /\ held = NoneHeld
    /\ issued = {}
    /\ pool = "nil"
    /\ closeRet = "not called"
    /\ maxConns = MaxConns
    /\ webReq = NoWebRequest
    /\ webResp = NoWebResponse
    /\ run = [s \in Slots |-> NoRun]

SanitizeCommon ==
    /\ sanFn = "none"
    /\ sanFn' = "sanitizeCommonName"
    /\ sanOut' = sanitizeCommonName(sanIn)
    /\ UNCHANGED <<store, req, resp, calls, fault, ret, sanIn, mainVars,
                   webVars, run>>

SanitizeScientific ==
    /\ sanFn = "none"
    /\ sanFn' = "sanitizeScientificName"
    /\ sanOut' = sanitizeScientificName(sanIn)
    /\ UNCHANGED <<store, req, resp, calls, fault, ret, sanIn, mainVars,
                   webVars, run>>

SanNext == SanitizeCommon \/ SanitizeScientific

SanSpec == SanInit /\ [][SanNext]_vars

(***************************************************************************)
(* Specification of the start and of the requests' use of the pool: main   *)
(* runs against a database that holds some of the tables, and once the     *)
(* server listens, requests run their statements side by side.             *)
(***************************************************************************)
ServeInit ==
    /\ plant = EmptyTable
    /\ plant_log = EmptyTable
    /\ plant_id_seq = 1
    /\ plant_log_id_seq = 1
    /\ req = NoRequest
    /\ resp = NoResponse
    /\ calls = <<>>
    /\ fault = 0
    /\ ret = NoReturn
    /\ sanIn = NoText
    /\ sanFn = "none"
    /\ sanOut = NoSanResult
    /\ dburl \in DbUrls
    /\ tables \in SUBSET RequiredTables
    /\ pc = "main"
    /\ connErr = NoErr
    /\ conns = <<>>
    /\ held = NoneHeld
    /\ issued = {}
    /\ pool = "nil"
    /\ closeRet = "not called"
    /\ maxConns = MaxConns
    /\ webReq = NoWebRequest
    /\ webResp = NoWebResponse
    /\ run = [s \in Slots |-> NoRun]

apiVars == <<store, req, resp, calls, fault, ret, sanVars>>

ServeNext ==
    \/ Connect /\ UNCHANGED <<apiVars, webVars, run>>
    \/ Fatal /\ UNCHANGED <<apiVars, webVars, run>>
    \/ ListenAndServe /\ UNCHANGED <<apiVars, webVars, run>>
    \/ \E s \in Slots : Acquire(s) /\ UNCHANGED <<apiVars, webVars, run>>
    \/ \E s \in Slots : Query(s) /\ UNCHANGED <<apiVars, webVars, run>>

ServeSpec == ServeInit /\ [][ServeNext]_vars

(***************************************************************************)
(* Specification of the adapter on its own: a caller of the persistence    *)
(* port connects it once, reads through it and closes it, in any order,    *)
(* against a database that holds some plants and logs.                     *)
(***************************************************************************)
PortPlant == [common_name |-> Str("a", 1), generic_name |-> NoText,
              specific_name |-> NoText]

PortLog == [plant_id |-> 1, description |-> Str("a", 1), event_type |-> 0]

PortStores ==
    { [plant |-> EmptyTable, plant_log |-> EmptyTable,
       plant_id_seq |-> 1, plant_log_id_seq |-> 1],
      [plant |-> (1 :> PortPlant), plant_log |-> EmptyTable,
       plant_id_seq |-> 2, plant_log_id_seq |-> 1],
      [plant |-> (1 :> PortPlant) @@ (2 :> PortPlant),
       plant_log |-> (1 :> PortLog),
       plant_id_seq |-> 3, plant_log_id_seq |-> 2] }

AdapterInit ==
    /\ \E st \in PortStores :
          /\ plant = st.plant
          /\ plant_log = st.plant_log
          /\ plant_id_seq = st.plant_id_seq
          /\ plant_log_id_seq = st.plant_log_id_seq
    /\ req = NoRequest
    /\ resp = NoResponse
    /\ calls = <<>>
    /\ fault = 0
    /\ ret = NoReturn
    /\ sanIn = NoText
    /\ sanFn = "none"
    /\ sanOut = NoSanResult
    /\ dburl \in DbUrls
    /\ tables \in SUBSET RequiredTables
    /\ pc = "main"
    /\ connErr = NoErr
    /\ conns = <<>>
    /\ held = NoneHeld
    /\ issued = {}
    /\ pool = "nil"
    /\ closeRet = "not called"
    /\ maxConns = MaxConns
    /\ webReq = NoWebRequest
    /\ webResp = NoWebResponse
    /\ run = [s \in Slots |-> NoRun]

AdapterNext ==
    \/ Connect /\ UNCHANGED <<apiVars, webVars, run>>
    \/ Close /\ UNCHANGED <<apiVars, webVars, run>>
    \/ PortGetPlantNames
    \/ PortGetPlantLogs

AdapterSpec == AdapterInit /\ [][AdapterNext]_vars

(***************************************************************************)
(* Specification of requests served side by side by a server that has      *)
(* started, on a pool of one connection or more, against a database that   *)
(* holds one plant.  The fair specification adds that a store call that    *)
(* can go on does go on, and that a handler that can take its next step    *)
(* takes it.                                                               *)
(***************************************************************************)
ConcInit ==
    /\ plant = (1 :> PortPlant)
    /\ plant_log = EmptyTable
    /\ plant_id_seq = 2
    /\ plant_log_id_seq = 1
    /\ req = NoRequest
    /\ resp = NoResponse
    /\ calls = <<>>
    /\ fault = 0
    /\ ret = NoReturn
    /\ sanIn = NoText
    /\ sanFn = "none"
    /\ sanOut = NoSanResult
    /\ dburl = "postgres://hortus@db/hortus"
    /\ tables = RequiredTables
    /\ pc = "serving"
    /\ connErr = NoErr
    /\ conns = <<HortusSchema>>
    /\ held = NoneHeld
    /\ issued = {}
    /\ pool = "open"
    /\ closeRet = "not called"
    /\ maxConns \in 1..MaxConns
    /\ webReq = NoWebRequest
    /\ webResp = NoWebResponse
    /\ run = [s \in Slots |-> NoRun]

Call(s) ==
    /\ run[s].step = "call"
    /\ Acquire(s)
    /\ UNCHANGED <<apiVars, webVars, run>>

ConcNext ==
    \/ \E s \in Slots : Begin(s)
    \/ \E s \in Slots : Call(s)
    \/ \E s \in Slots : Statement(s)
    \/ \E s \in Slots : Respond(s)

ConcSpec == ConcInit /\ [][ConcNext]_vars

FairConcSpec ==
    /\ ConcSpec
    /\ \A s \in Slots :
          /\ WF_vars(Call(s))
          /\ WF_vars(Statement(s))
          /\ WF_vars(Respond(s))

(***************************************************************************)
(* Specification of the web tier's new-plant page in front of the API:     *)
(* the API is reached through the web handler alone.                       *)
(***************************************************************************)
WebNewPlant == \E wr \in WebRequests : WebNewPlantHandler(wr)

WebNext == WebNewPlant

WebSpec == Init /\ [][WebNext]_vars

(***************************************************************************)
(* Properties.                                                             *)
(***************************************************************************)
Served == req.route \in {"list", "new", "info", "log"}

PortCalled == \E i \in 1..Len(calls) : calls[i] \in PortOps

HasNonAscii(s) ==
    \E i \in 1..Len(s) : s[i][1] \in {"eacute", "nbsp"}

\* C1: on each of the four routes, a request whose method is outside the
\* route's allowed set (HEAD/GET for list and info, POST for create and
\* add-log) is answered 405 with the body "Method not allowed", whatever
\* its path identifier, its form and the store hold, and no persistence-port
\* operation is called.
C1_MethodNotAllowed ==
    LET allowed == IF req.route \in {"list", "info"}
                   THEN {"HEAD", "GET"} ELSE {"POST"}
    IN  (Served /\ req.method \notin allowed)
        => /\ resp.status = 405
           /\ resp.body = [kind |-> "error", msg |-> "Method not allowed"]
           /\ ~PortCalled

C1_Witness ==
    /\ req.route = "log" /\ req.method = "GET"
    /\ req.id = <<"1">> /\ req.entry # NoText
    /\ plant # EmptyTable
    /\ resp.status = 405

\* C2: whenever the trimmed input is well-formed UTF-8 of 1 to 255 code
\* points, sanitizeCommonName succeeds and returns exactly the trimmed input.
C2_CommonNameAccepted ==
    sanFn = "sanitizeCommonName" =>
        LET t == TrimSpace(sanIn)
        IN  (ValidString(t) /\ RuneCount(t) >= 1 /\ RuneCount(t) <= 255)
            => sanOut = [s |-> t, err |-> NoErr]

\* C3: sanitizeCommonName fails with the empty-name error exactly when the
\* trimmed input has length zero, with the too-long error when the trimmed
\* length (the length the runtime reports, in bytes) exceeds 255, with the
\* not-UTF-8 error when the trimmed input is neither of those and is not
\* well-formed; one error kind per failing input, in that order, and no
\* string comes back with an error.
C3_CommonNameErrors ==
    sanFn = "sanitizeCommonName" =>
        LET t == TrimSpace(sanIn)
            n == ByteLen(t)
        IN  /\ sanOut.err = "Common name is empty" <=> n = 0
            /\ sanOut.err = "Common name length is greater than 255"
                   <=> n > 255
            /\ sanOut.err = "Common name is not UTF-8"
                   <=> (n > 0 /\ n <= 255 /\ ~ValidString(t))
            /\ sanOut.err \in {"Common name is empty",
                               "Common name length is greater than 255",
                               "Common name is not UTF-8", NoErr}
            /\ sanOut.err # NoErr => sanOut.s = <<>>
            /\ RuneCount(t) > 255
                   => sanOut.err = "Common name length is greater than 255"

C3_Witness ==
    /\ sanFn = "sanitizeCommonName"
    /\ ~ValidString(TrimSpace(sanIn))
    /\ ByteLen(TrimSpace(sanIn)) > 255
    /\ sanOut.err = "Common name length is greater than 255"

\* C4 as stated: every input holding a character with code point above 127
\* makes sanitizeScientificName fail with the not-ASCII error, whatever the
\* input's length and wherever the character sits.
C4_NonAsciiAlwaysRejected ==
    (sanFn = "sanitizeScientificName" /\ HasNonAscii(sanIn))
        => sanOut.err = "Specific name is not ASCII"

\* C4 as amended: every input whose trimmed form is at most 255 bytes long
\* and holds a character with code point above 127 makes
\* sanitizeScientificName fail with the not-ASCII error; an input that is
\* empty or all white space is accepted and yields the empty string.
C4_NonAsciiRejectedWithinLimit ==
    sanFn = "sanitizeScientificName" =>
        LET t == TrimSpace(sanIn)
        IN  /\ (ByteLen(t) <= 255 /\ HasNonAscii(t))
                => sanOut = [s |-> <<>>, err |-> "Specific name is not ASCII"]
            /\ (\A i \in 1..Len(sanIn) : sanIn[i][1] \in {"sp", "nbsp"})
                => sanOut = [s |-> <<>>, err |-> NoErr]

C4_Witness ==
    /\ sanFn = "sanitizeScientificName"
    /\ Len(sanIn) = 3
    /\ sanIn[1][1] = "sp" /\ sanIn[2][1] = "a" /\ sanIn[3] = <<"eacute", 1>>
    /\ sanOut.err = "Specific name is not ASCII"

AllSpace(s) == \A i \in 1..Len(s) : s[i][1] \in {"sp", "nbsp"}

FormRejected(r) ==
    \/ ~r.formOk
    \/ AllSpace(r.common)
    \/ sanitizeCommonName(r.common).err # NoErr
    \/ sanitizeScientificName(r.generic).err # NoErr
    \/ sanitizeScientificName(r.specific).err # NoErr

\* C5: a POST to create plant whose common-name field is empty or all white
\* space, or whose form does not parse, or of which any field fails its
\* sanitizer, is answered 400, AddNewPlant is not called, and both tables
\* and the plant sequence are as they were (so a list of the plants returns
\* the same set before and after).
C5_RejectedCreateLeavesStore ==
    [][ (req'.route = "new" /\ req'.method = "POST" /\ FormRejected(req'))
        => /\ resp'.status = 400
           /\ \A i \in 1..Len(calls') : calls'[i] \notin PortOps
           /\ plant' = plant
           /\ plant_id_seq' = plant_id_seq
           /\ plant_log' = plant_log ]_vars

C5_Witness ==
    /\ req.route = "new" /\ req.method = "POST" /\ req.formOk
    /\ req.common = Str("sp", 1)
    /\ resp.status = 400
    /\ DOMAIN plant # {}

\* C6: create plant sanitizes the common, then the generic, then the
\* specific name and stops at the first that fails: the response is 400
\* with that field's validation message, and no later field is sanitized.
C6_FirstFailureReported ==
    (req.route = "new" /\ req.method = "POST" /\ req.formOk) =>
        LET errs == << sanitizeCommonName(req.common).err,
                       sanitizeScientificName(req.generic).err,
                       sanitizeScientificName(req.specific).err >>
            failing == {i \in 1..3 : errs[i] # NoErr}
            first == SetMin(failing)
            order == << "sanitize common-name", "sanitize generic-name",
                        "sanitize specific-name" >>
        IN  failing # {} =>
                /\ resp.status = 400
                /\ resp.body = [kind |-> "error", msg |-> errs[first]]
                /\ calls = SubSeq(order, 1, first)

C6_Witness ==
    /\ req.route = "new" /\ req.method = "POST" /\ req.formOk
    /\ req.common = Padded("a")
    /\ req.generic = Str("eacute", 1)
    /\ req.specific = TooLong("b")
    /\ resp.body = [kind |-> "error", msg |-> "Specific name is not ASCII"]

FormAccepted(r) ==
    /\ r.route = "new" /\ r.method = "POST" /\ r.formOk
    /\ sanitizeCommonName(r.common).err = NoErr
    /\ sanitizeScientificName(r.generic).err = NoErr
    /\ sanitizeScientificName(r.specific).err = NoErr

Canonical(digits) ==
    /\ Len(digits) >= 1
    /\ \A i \in 1..Len(digits) : IsDigit(digits[i])
    /\ Len(digits) > 1 => digits[1] # "0"

C8_CreateThenInfo ==
    [][ ( /\ req.route = "new" /\ resp.status = 200
          /\ TrimSpace(req.generic) = NoText
          /\ TrimSpace(req.specific) = NoText
          /\ req'.route = "info" /\ req'.method = "GET"
          /\ req'.id = resp.body.digits
          /\ fault' = 0 )
        => /\ resp'.status = 200
           /\ resp'.body =
                 [kind |-> "json",
                  value |-> [id |-> DigitsVal(resp.body.digits),
                             common_name |-> TrimSpace(req.common),
                             generic_name |-> NoText,
                             specific_name |-> NoText,
                             logs |-> <<>>]] ]_vars

C8_Witness ==
    /\ req.route = "info" /\ req.method = "GET" /\ req.id = <<"1", "0">>
    /\ resp.status = 200
    /\ resp.body.value = [id |-> 10, common_name |-> Str("a", 1),
                          generic_name |-> NoText, specific_name |-> NoText,
                          logs |-> <<>>]

\* C9: a list of the plants succeeds unless the store fails, and a GET
\* returns one short description per plant row: every row's id occurs
\* exactly once, with that row's common name, and nothing else occurs; for
\* an empty table the result is the empty sequence with status 200.
C9_ListIsExact ==
    (req.route = "list" /\ req.method \in {"GET", "HEAD"}) =>
        /\ fault = 0 => resp.status = 200
        /\ (resp.status = 200 /\ req.method = "GET") =>
              /\ resp.body.kind = "json"
              /\ Len(resp.body.value) = Cardinality(DOMAIN plant)
              /\ \A id \in DOMAIN plant :
                    Cardinality({i \in 1..Len(resp.body.value) :
                                    resp.body.value[i].id = id}) = 1
              /\ \A i \in 1..Len(resp.body.value) :
                    /\ resp.body.value[i].id \in DOMAIN plant
                    /\ resp.body.value[i].common_name =
                          plant[resp.body.value[i].id].common_name

C9_Witness ==
    /\ req.route = "list" /\ req.method = "GET" /\ resp.status = 200
    /\ Len(resp.body.value) = 2
    /\ resp.body.value[1].common_name # resp.body.value[2].common_name

\* C10: two lists of the plants served one after the other, with no write
\* between them, return the same sequence, in the same order.
C10_ListRepeats ==
    [][ ( /\ req.route = "list" /\ req.method = "GET" /\ resp.status = 200
          /\ req'.route = "list" /\ req'.method = "GET"
          /\ resp'.status = 200 )
        => resp'.body = resp.body ]_vars

\* A base-10 integer as text: an optional sign, then one digit or more.
IntegerText(t) ==
    \E k \in 0..1 :
        /\ Len(t) > k
        /\ k = 1 => t[1] \in {"+", "-"}
        /\ \A i \in (k + 1)..Len(t) : IsDigit(t[i])

IntegerValue(t) ==
    IF t[1] = "-" THEN 0 - DigitsVal(Tail(t))
    ELSE IF t[1] = "+" THEN DigitsVal(Tail(t))
    ELSE DigitsVal(t)

\* C11: a GET or HEAD of plant info whose identifier is a number that no
\* plant row carries is answered 500 (not 404, not 200) and leaves both
\* tables and both sequences as they were; a request of which a store call
\* fails for a reason of the store's own is answered 500 as well.
C11_UnknownPlantIs500 ==
    [][ ( /\ req'.route = "info" /\ req'.method \in {"GET", "HEAD"}
          /\ IntegerText(req'.id) )
        => /\ IntegerValue(req'.id) \notin DOMAIN plant
                => /\ resp'.status = 500
                   /\ resp'.body.kind = "error"
           /\ fault' # 0 => resp'.status = 500
           /\ resp'.status \in {200, 500}
           /\ store' = store ]_vars

C11_Witness ==
    /\ req.route = "info" /\ req.method = "HEAD" /\ req.id = <<"9">>
    /\ DOMAIN plant = {1, 2}
    /\ fault = 0
    /\ resp.status = 500

\* C12: on the plant-info and add-log routes, a request with an allowed
\* method whose path identifier is not a base-10 integer is answered 400,
\* no persistence-port operation is called, and both tables and both
\* sequences are as they were.
C12_BadIdentifierIs400 ==
    [][ ( /\ \/ req'.route = "info" /\ req'.method \in {"GET", "HEAD"}
             \/ req'.route = "log" /\ req'.method = "POST"
          /\ ~IntegerText(req'.id) )
        => /\ resp'.status = 400
           /\ \A i \in 1..Len(calls') : calls'[i] \notin PortOps
           /\ store' = store ]_vars

C12_Witness ==
    /\ req.route = "log" /\ req.method = "POST" /\ req.formOk
    /\ req.id = <<"1", "x">>
    /\ req.entry # NoText
    /\ 1 \in DOMAIN plant
    /\ resp.status = 400
    /\ resp.body = [kind |-> "error", msg |-> "strconv.Atoi: invalid syntax"]

\* C13: a successful HEAD of the list of plants carries the Content-Length
\* header that a GET carries for the same store, namely the number of bytes
\* of the serialization GET writes as its body, and HEAD writes no body.
C13_HeadContentLength ==
    (req.route = "list" /\ req.method = "HEAD" /\ resp.status = 200) =>
        /\ resp.body = NoBody
        /\ \E order \in RowOrders(DOMAIN plant) :
              resp.contentLength = Itoa(EncodeLen(ShortDescs(order)))

\* C14: Connect returns no error only if both plant and plant_log exist in
\* hortus_schema; when either is absent (one of the two existing included)
\* it returns an error, the schema-missing one once the database was
\* reached, and the server never gets to serve.
C14_ConnectNeedsBothTables ==
    /\ (pc \in {"connected", "serving", "exited"} /\ connErr = NoErr)
          => ("plant" \in tables /\ "plant_log" \in tables)
    /\ (pc = "serving") => ("plant" \in tables /\ "plant_log" \in tables)
    /\ (pc \in {"connected", "exited"} /\ conns # <<>>
           /\ ~("plant" \in tables /\ "plant_log" \in tables))
          => connErr \in {"database: Schema and tables not found",
                          StoreError}

\* C15: once Connect has succeeded, every statement a request runs has
\* hortus_schema as its search_path, whichever connection of the pool it
\* runs on, the connections opened while requests overlap included.
C15_SchemaOnEveryConnection ==
    \A st \in issued : st.path = "hortus_schema"

\* C16: in every state every row of plant_log has the id of a row of plant
\* as its plant_id; an add-log request whose identifier is a number that no
\* plant row carries calls AddNewPlantLog, which fails, is answered 500 and
\* adds no log row.
C16_LogsReferencePlants ==
    [][ /\ \A l \in DOMAIN plant_log' :
              plant_log'[l].plant_id \in DOMAIN plant'
        /\ ( /\ req'.route = "log" /\ req'.method = "POST" /\ req'.formOk
             /\ IntegerText(req'.id)
             /\ IntegerValue(req'.id) \notin DOMAIN plant )
           => /\ calls' = <<"AddNewPlantLog">>
              /\ ret'.err # NoErr
              /\ resp'.status = 500
              /\ plant_log' = plant_log ]_vars

C16_Witness ==
    /\ req.route = "log" /\ req.method = "POST" /\ req.id = <<"9">>
    /\ 9 \notin DOMAIN plant
    /\ plant_log # EmptyTable
    /\ fault = 0
    /\ resp.status = 500

\* C17: an add-log request answered 200 has added exactly one row to
\* plant_log, leaving the others as they were; the row's plant_id is the
\* number in the path, its description is the new-entry field as sent
\* (white space kept; empty when the field is missing) and its event_type
\* is 0; the response has no body; and every row of plant_log has
\* event_type 0.
C17_AddLogAddsOneRow ==
    [][ /\ (req'.route = "log" /\ resp'.status = 200) =>
              /\ \E l \in DOMAIN plant_log' \ DOMAIN plant_log :
                    /\ DOMAIN plant_log' = DOMAIN plant_log \cup {l}
                    /\ plant_log'[l] =
                          [plant_id |-> IntegerValue(req'.id),
                           description |-> req'.entry,
                           event_type |-> 0]
              /\ \A old \in DOMAIN plant_log :
                    plant_log'[old] = plant_log[old]
              /\ resp'.body = [kind |-> "none"]
              /\ plant' = plant
        /\ \A l \in DOMAIN plant_log' : plant_log'[l].event_type = 0 ]_vars

C17_Witness ==
    /\ req.route = "log" /\ resp.status = 200
    /\ req.id = <<"+", "1">>
    /\ req.entry = Padded("a")
    /\ \E l \in DOMAIN plant_log :
          plant_log[l] = [plant_id |-> 1, description |-> Padded("a"),
                          event_type |-> 0]

\* C18 as stated: when AddNewPlantLog succeeds, what it hands back to its
\* caller holds the identifier the store gave the new row.
C18_LogIdReturned ==
    (req.route = "log" /\ resp.status = 200) =>
        /\ "id" \in DOMAIN ret
        /\ ret.id \in DOMAIN plant_log

\* C18 as amended: AddNewPlantLog hands back an error value and nothing
\* else, nil exactly when the row was added; the identifier of the new row
\* reaches neither the handler nor the response, whose body is empty.
C18_LogReturnsErrorOnly ==
    (req.route = "log" /\ calls = <<"AddNewPlantLog">>) =>
        /\ DOMAIN ret = {"err"}
        /\ ret.err = NoErr <=> resp.status = 200
        /\ resp.status = 200 =>
              /\ resp.body = [kind |-> "none"]
              /\ resp.contentLength = NoText

C18_Witness ==
    /\ req.route = "log" /\ resp.status = 200
    /\ ret = [err |-> NoErr]
    /\ plant_log_id_seq = 2 /\ 1 \in DOMAIN plant_log

NoOuterSpace(s) ==
    s = <<>> \/ (~IsSpace(s[1][1]) /\ ~IsSpace(s[Len(s)][1]))

\* C20: every row of plant has a common_name that is not empty, neither
\* starts nor ends with white space, is well-formed UTF-8 and has at most
\* 255 code points, and a generic_name and a specific_name that hold ASCII
\* characters only, neither start nor end with white space and have at most
\* 255 characters (they may be empty).
C20_StoredNamesSanitized ==
    \A id \in DOMAIN plant :
        LET p == plant[id]
        IN  /\ RuneCount(p.common_name) >= 1
            /\ RuneCount(p.common_name) <= 255
            /\ NoOuterSpace(p.common_name)
            /\ ValidString(p.common_name)
            /\ \A n \in {p.generic_name, p.specific_name} :
                  /\ \A i \in 1..Len(n) :
                        ValidRune(n[i][1]) /\ CodePoint(n[i][1]) <= 127
                  /\ NoOuterSpace(n)
                  /\ RuneCount(n) <= 255

C20_Witness ==
    \E id \in DOMAIN plant :
        /\ req.route = "new" /\ resp.status = 200
        /\ req.generic = Padded("b")
        /\ DigitsVal(resp.body.digits) = id
        /\ plant[id] = [common_name |-> Str("eacute", 1),
                        generic_name |-> Str("b", 1),
                        specific_name |-> Str("a", 1)]

\* C21: a GET or HEAD of plant info with a numeric identifier calls
\* GetPlantNames first and GetPlantLogs second, each with that number; when
\* GetPlantNames fails the answer is 500 and GetPlantLogs is not called;
\* when GetPlantLogs fails the answer is 500; on success the Plant carries
\* the requested id, the three names of that plant row and exactly the log
\* rows whose plant_id is that id; HEAD makes the same two calls and writes
\* no body.
C21_InfoCallOrder ==
    ( /\ req.route = "info" /\ req.method \in {"GET", "HEAD"}
      /\ IntegerText(req.id) ) =>
        LET id == IntegerValue(req.id)
            logs == {l \in DOMAIN plant_log : plant_log[l].plant_id = id}
        IN  /\ calls \in {<<"GetPlantNames">>,
                          <<"GetPlantNames", "GetPlantLogs">>}
            /\ (fault = 1 \/ id \notin DOMAIN plant) <=>
                  calls = <<"GetPlantNames">>
            /\ calls = <<"GetPlantNames">> => resp.status = 500
            /\ fault = 2 => resp.status = 500
            /\ (fault = 0 /\ id \in DOMAIN plant) => resp.status = 200
            /\ resp.status = 200 =>
                  /\ calls = <<"GetPlantNames", "GetPlantLogs">>
                  /\ Len(ret.plantLogs) = Cardinality(logs)
                  /\ \A l \in logs :
                        \E i \in 1..Len(ret.plantLogs) :
                           ret.plantLogs[i] =
                              [Id |-> l, PlantId |-> id,
                               Desc |-> plant_log[l].description,
                               EventType |-> plant_log[l].event_type]
                  /\ req.method = "HEAD" => resp.body = [kind |-> "none"]
                  /\ req.method = "GET" =>
                        /\ resp.body.kind = "json"
                        /\ resp.body.value.id = id
                        /\ resp.body.value.common_name =
                              plant[id].common_name
                        /\ resp.body.value.generic_name =
                              plant[id].generic_name
                        /\ resp.body.value.specific_name =
                              plant[id].specific_name
                        /\ Len(resp.body.value.logs) = Cardinality(logs)
                        /\ \A i \in 1..Len(resp.body.value.logs) :
                              /\ resp.body.value.logs[i].plant_id = id
                              /\ resp.body.value.logs[i].id \in logs

C21_Witness ==
    /\ req.route = "info" /\ req.method = "GET" /\ req.id = <<"1", "0">>
    /\ resp.status = 200
    /\ resp.body.value.logs = <<>>
    /\ \E l \in DOMAIN plant_log : plant_log[l].plant_id = 9

C26_SanitizersIdempotent ==
    /\ sanFn = "sanitizeCommonName" =>
          /\ sanOut = sanitizeCommonName(sanIn)
          /\ sanOut.err = NoErr =>
                sanitizeCommonName(sanOut.s) = [s |-> sanOut.s, err |-> NoErr]
    /\ sanFn = "sanitizeScientificName" =>
          /\ sanOut = sanitizeScientificName(sanIn)
          /\ sanOut.err = NoErr =>
                sanitizeScientificName(sanOut.s) =
                    [s |-> sanOut.s, err |-> NoErr]

C26_Witness ==
    /\ sanFn = "sanitizeCommonName"
    /\ Len(sanIn) = 3
    /\ sanIn[1][1] = "sp" /\ sanIn[2][1] = "nbsp" /\ sanIn[3][1] = "eacute"
    /\ sanOut.err = NoErr
    /\ sanOut.s = <<sanIn[3]>>

\* C30: on a POST the web tier's new-plant handler hands the API's create
\* route the three name fields it received, and it answers with a redirect
\* (303) to a plant's page only when the API has created that plant: the
\* URL then ends in the new plant's identifier; an API answer of 400 or
\* 500 does not lead to a redirect to a plant page.
C30_RedirectOnlyWhenCreated ==
    (webReq.method = "POST" /\ webResp.status = 303) =>
        /\ req.route = "new" /\ req.method = "POST"
        /\ req.common = webReq.common
        /\ req.generic = webReq.generic
        /\ req.specific = webReq.specific
        /\ resp.status = 200
        /\ webResp.url.path = "/plants/"
        /\ webResp.url.id.kind = "decimal"
        /\ DigitsVal(webResp.url.id.digits) \in DOMAIN plant

\* C24: a call of Close never fails: whether the adapter was never
\* connected, Connect failed before or after it created the pool, the
\* adapter is connected, or it was closed before, Close completes with a
\* nil error and no connection of the pool stays open.
C24_CloseNeverFails ==
    /\ closeRet \in {"not called", "nil"}
    /\ closeRet = "nil" => conns = <<>>

\* C25: GetPlantLogs for an identifier that no log row refers to, whether
\* or not a plant has that identifier, returns the empty sequence and no
\* error (the store not failing), and GetPlantNames for an identifier that
\* no plant row carries returns an error.
C25_NoLogsIsEmptyNotError ==
    /\ ( /\ req.route = "port" /\ calls = <<"GetPlantLogs">> /\ fault = 0
         /\ \A l \in DOMAIN plant_log :
               plant_log[l].plant_id # DigitsVal(req.id) )
         => ret = [plantLogs |-> <<>>, err |-> "nil"]
    /\ ( /\ req.route = "port" /\ calls = <<"GetPlantNames">>
         /\ DigitsVal(req.id) \notin DOMAIN plant )
         => ret.err # "nil"

C25_Witness ==
    /\ req.route = "port" /\ calls = <<"GetPlantLogs">> /\ fault = 0
    /\ req.id = <<"3">>
    /\ DOMAIN plant = {1, 2} /\ plant_log # EmptyTable
    /\ ret = [plantLogs |-> <<>>, err |-> "nil"]

Finished(s) == run[s].step \in {"respond", "done"}

Created(s) ==
    /\ run[s].op = "AddNewPlant" /\ Finished(s) /\ run[s].status = 200

\* C23: valid create-plant requests served side by side, the store itself
\* not failing, all succeed; they are given different identifiers, and the
\* plant table holds for each its own row with its own sanitized names and
\* no other new row, whatever reads run at the same time.
C23_ConcurrentCreatesSucceed ==
    /\ \A s \in Slots :
          ( /\ run[s].r.route = "new" /\ run[s].op = "AddNewPlant"
            /\ run[s].step = "respond" /\ ~run[s].fault )
          => /\ run[s].status = 200
             /\ run[s].id \in DOMAIN plant
             /\ plant[run[s].id] =
                   [common_name |-> SanitizeForm(run[s].r).comm,
                    generic_name |-> SanitizeForm(run[s].r).gen,
                    specific_name |-> SanitizeForm(run[s].r).spe]
    /\ \A s, t \in Slots :
          (s # t /\ Created(s) /\ Created(t)) => run[s].id # run[t].id
    /\ DOMAIN plant = {1} \cup {run[s].id : s \in {t \in Slots : Created(t)}}

\* C27: a request is answered once and no more: in every state a request
\* has had at most one response, it has had one exactly when its handler
\* has returned, and then with one of the statuses 200, 400, 405 and 500;
\* a handler at its answer can write it and a handler holding a connection
\* can run its statement, so that it waits for nothing but its store call;
\* and, store calls returning, there comes a time from which every request
\* that was taken up has been answered and its handler has returned.
C27_OneResponse ==
    /\ [][\A s \in Slots :
            /\ run'[s].responses <= 1
            /\ (run'[s].step = "done") <=> (run'[s].responses = 1)
            /\ (run'[s].step = "done") =>
                  run'[s].status \in {200, 400, 405, 500}
            /\ run'[s].responses >= run[s].responses
            /\ (run[s].step = "respond") => ENABLED Respond(s)
            /\ (run[s].step = "call" /\ held[s] # 0)
                  => ENABLED Statement(s)]_vars
    /\ <>[](\A s \in Slots : run[s].step \in {"idle", "done"})

C27_Witness ==
    \E s, t \in Slots :
        /\ run[s].step = "done" /\ run[s].status = 500
        /\ run[s].op = "GetPlantLogs"
        /\ run[t].step = "done" /\ run[t].status = 400
        /\ run[t].op = "none"

\* C28: the info page reads the names and the logs in two store calls with
\* nothing holding the two together: a log that an add-log request
\* inserted for the plant after the names were read and before the logs
\* were is in the page answered, and every log of the page is a row of
\* plant_log of the plant asked for.
C28_InfoSeesLogsAddedBetween ==
    \A s \in Slots :
        /\ ( /\ run[s].r.route = "info" /\ run[s].step = "respond"
             /\ run[s].status = 200 )
           => /\ run[s].between \subseteq run[s].logs
              /\ \A l \in run[s].logs :
                    /\ l \in DOMAIN plant_log
                    /\ plant_log[l].plant_id = run[s].id
        /\ run[s].between # {} =>
              /\ run[s].r.route = "info"
              /\ run[s].op = "GetPlantLogs"

C28_Witness ==
    \E s \in Slots :
        /\ run[s].r.route = "info" /\ run[s].step = "respond"
        /\ run[s].status = 200
        /\ run[s].between # {}
        /\ run[s].logs = run[s].between

\* C29: a request has a connection of the pool only while a store call of
\* its handler runs: none when it has not started, between two store
\* calls, at its answer and after it, whether the call failed or not; with
\* no request in a store call no connection is checked out; and when a
\* request waits for a connection that the pool cannot give, another
\* request holds one and is in a store call that can go on and give it
\* back.
C29_ConnectionOnlyDuringCall ==
    /\ \A s \in Slots : held[s] # 0 => run[s].step = "call"
    /\ \A s \in Slots : held[s] # 0 => held[s] \in 1..Len(conns)
    /\ \A s, t \in Slots : (s # t /\ held[s] # 0) => held[s] # held[t]
    /\ Len(conns) <= maxConns
    /\ (\A s \in Slots : run[s].step \in {"idle", "respond", "done"})
          => held = NoneHeld
    /\ \A s \in Slots :
          ( /\ run[s].step = "call" /\ held[s] = 0
            /\ Idle = {} /\ Len(conns) >= maxConns )
          => \E t \in Slots :
                /\ t # s /\ held[t] # 0 /\ run[t].step = "call"

C29_Witness ==
    /\ maxConns = 1
    /\ \E s, t \in Slots :
          /\ s # t
          /\ run[s].step = "call" /\ held[s] = 0
          /\ run[t].step = "call" /\ held[t] # 0
          /\ run[t].op = "GetPlantLogs"

====
